---- MODULE Spec2Model ----
(***************************************************************************)
(* ECDSA over short Weierstrass prime-field curves: number theory, octet   *)
(* conversions, affine group law and the sign / verify protocol, as        *)
(* implemented in src/ecdsa.                                                *)
(*                                                                         *)
(* Python values are modelled as follows.  An octet string (str of hex     *)
(* digits and blanks) is a sequence over 0..15 and SP; an octet list is a  *)
(* sequence over 0..255; a call that may raise returns Ok(v) or Raise(e,m).*)
(* A CurvePoint is the record of its fields curve, x, y.  An Optional[int]  *)
(* is the empty tuple for None and the tuple <<d>> for the int d.          *)
(*                                                                         *)
(* With(x, F) is Python's assignment to a local: x is evaluated once and   *)
(* F is applied to its value.                                              *)
(***************************************************************************)
EXTENDS Integers, Sequences, FiniteSets, TLC

\* ------------------------------------------------------------------ results
Ok(v) == [kind |-> "ok", val |-> v]
Raise(e, m) == [kind |-> e, msg |-> m]
IsOk(res) == res.kind = "ok"

\* Optional[int]
None == <<>>
Some(v) == <<v>>

With(x, F(_)) == CHOOSE out \in {F(v) : v \in {x}} : TRUE

\* ------------------------------------------------------------------ integers
RECURSIVE Pow(_, _)
Pow(b, e) == IF e = 0 THEN 1 ELSE b * Pow(b, e - 1)

\* pow(b, e, p) for e >= 0
RECURSIVE PowMod(_, _, _)
PowMod(b, e, p) ==
    IF e = 0 THEN 1 % p
    ELSE With(PowMod(b, e \div 2, p),
              LAMBDA h : IF e % 2 = 1 THEN (((h * h) % p) * b) % p ELSE (h * h) % p)

\* ceil(log2(v)) for an integer v >= 1
RECURSIVE CeilLog2From(_, _)
CeilLog2From(v, k) == IF Pow(2, k) >= v THEN k ELSE CeilLog2From(v, k + 1)
CeilLog2(v) == CeilLog2From(v, 0)

\* floor(log2(v)) + 1 for an integer v >= 1 : the bit length of v
RECURSIVE BitLen(_)
BitLen(v) == IF v = 0 THEN 0 ELSE 1 + BitLen(v \div 2)

\* ceil(log2(p) / 8) for an integer p >= 1
RECURSIVE CoordLenFrom(_, _)
CoordLenFrom(p, m) == IF Pow(256, m) >= p THEN m ELSE CoordLenFrom(p, m + 1)
CoordLen(p) == CoordLenFrom(p, 0)

\* ------------------------------------------------------------------ numbertheory.py
\* pow(n, -1, p): ValueError when n is not invertible modulo p
inv_mod(n, p) ==
    With({x \in 0..(p - 1) : (n * x) % p = 1 % p},
         LAMBDA inverses :
            IF inverses # {} THEN Ok(CHOOSE x \in inverses : TRUE)
            ELSE Raise("ValueError", "base is not invertible for the given modulus"))

legendre(a, p) == PowMod(a, (p - 1) \div 2, p)

\* p - 1 = Q * 2^S, Q odd : <<Q, S>>
RECURSIVE SplitPow2(_, _)
SplitPow2(Q, S) == IF Q % 2 = 0 THEN SplitPow2(Q \div 2, S + 1) ELSE <<Q, S>>

\* the linear search for a non-residue, from z upward
RECURSIVE FindNonResidue(_, _)
FindNonResidue(z, p) ==
    IF legendre(z, p) # p - 1 THEN FindNonResidue(z + 1, p) ELSE z

\* the inner while: least i with t^(2^i) = 1, capped at M - 1
RECURSIVE OrderLoop(_, _, _, _)
OrderLoop(z, i, M, p) ==
    IF z # 1 /\ i < M - 1
    THEN With((z * z) % p, LAMBDA z2 : OrderLoop(z2, i + 1, M, p))
    ELSE i

\* the for loop: b squared cnt times
RECURSIVE SquareTimes(_, _, _)
SquareTimes(b, cnt, p) ==
    IF cnt > 0
    THEN With((b * b) % p, LAMBDA b2 : SquareTimes(b2, cnt - 1, p))
    ELSE b

\* the outer while of tonelli; st is <<M, c, t, R>>
RECURSIVE TonelliLoop(_, _)
TonelliLoop(st, p) ==
    IF st[3] # 0 /\ st[3] # 1
    THEN With(OrderLoop(st[3], 0, st[1], p), LAMBDA i :
         With(SquareTimes(st[2], st[1] - i - 1, p), LAMBDA b :
         With(<<i, (b * b) % p, (st[3] * ((b * b) % p)) % p, (st[4] * b) % p>>,
              LAMBDA next : TonelliLoop(next, p))))
    ELSE IF st[3] = 0 THEN 0 ELSE st[4]

tonelli(n, p) ==
    IF legendre(n, p) # 1
    THEN Raise("AssertionError", "not a square (mod p)")
    ELSE With(SplitPow2(p - 1, 0), LAMBDA QS :
         With(FindNonResidue(1, p), LAMBDA z :
            IF z = 0
            THEN Raise("AssertionError", "non-quadratic residue mod p not found")
            ELSE With(<<QS[2], PowMod(z, QS[1], p), PowMod(n, QS[1], p),
                        PowMod(n, (QS[1] + 1) \div 2, p)>>,
                      LAMBDA st : Ok(TonelliLoop(st, p)))))

\* ------------------------------------------------------------------ data_conversion.py
\* the blank of an octet string
SP == 16

\* int(s, 16) of a string of hex digits: ValueError for the empty string
HexToInt(s) ==
    LET RECURSIVE upto(_)
        upto(i) == IF i = 0 THEN 0 ELSE 16 * upto(i - 1) + s[i]
    IN  IF Len(s) = 0
        THEN Raise("ValueError", "invalid literal for int() with base 16: ''")
        ELSE Ok(upto(Len(s)))

\* hex(v) without the "0x" prefix, v >= 0
RECURSIVE IntToHex(_)
IntToHex(v) == IF v < 16 THEN <<v>> ELSE Append(IntToHex(v \div 16), v % 16)

IsBlank(ch) == ch = SP
Strip(s) == SelectSeq(s, LAMBDA ch : ~IsBlank(ch))

octet_str_to_int(octet_str) == With(Strip(octet_str), LAMBDA stripped : HexToInt(stripped))

\* grouper(2, s) for s of even length
grouper(s) == [i \in 1..(Len(s) \div 2) |-> 16 * s[2 * i - 1] + s[2 * i]]

octet_str_to_octet_list(octet_str) ==
    With(Strip(octet_str), LAMBDA stripped :
        IF Len(stripped) % 2 # 0
        THEN With(<<0>> \o stripped, LAMBDA padded : grouper(padded))
        ELSE grouper(stripped))

octet_list_to_int(octet_list) ==
    LET RECURSIVE upto(_)
        upto(i) == IF i = 0 THEN 0 ELSE upto(i - 1) * 256 + octet_list[i]
    IN  upto(Len(octet_list))

octet_list_to_field_elem(octet_list, p) ==
    With(octet_list_to_int(octet_list), LAMBDA elem :
        IF ~(0 <= elem /\ elem < p)
        THEN Raise("ValueError",
                   "Field F_" \o ToString(p) \o " does not contain: " \o ToString(elem))
        ELSE Ok(elem))

field_elem_to_octet_list(elem) ==
    With(IntToHex(elem), LAMBDA str :
        IF Len(str) % 2 # 0
        THEN With(<<0>> \o str, LAMBDA padded : grouper(padded))
        ELSE grouper(str))

Tail1(s) == SubSeq(s, 2, Len(s))

\* the str "00" that line 101 compares the first octet (an int) with; an int
\* never equals a str
IntEqualsStr00(octet) == FALSE

\* the compressed branch of octet_str_to_point
DecodeCompressed(octets, params) ==
    With(octet_list_to_field_elem(Tail1(octets), params.p), LAMBDA x_P :
        IF ~IsOk(x_P) THEN x_P
        ELSE IF octets[1] \notin {2, 3}
        THEN Raise("ValueError", "Invalid Y value: " \o ToString(octets[1]))
        ELSE IF params.p % 2 = 0
        THEN Raise("NotImplementedError", "Support for F_{2^m} is not implemented")
        ELSE With((x_P.val * x_P.val * x_P.val + params.a * x_P.val + params.b) % params.p,
                  LAMBDA alpha :
             With(tonelli(alpha, params.p), LAMBDA beta :
                LET y_tilde_P == IF octets[1] = 2 THEN 0 ELSE 1
                IN  IF ~IsOk(beta) THEN beta
                    ELSE IF (beta.val - y_tilde_P) % 2 = 0
                    THEN Ok(<<x_P.val, beta.val>>)
                    ELSE Ok(<<x_P.val, params.p - beta.val>>))))

\* the uncompressed branch of octet_str_to_point
DecodeUncompressed(octets, params) ==
    With(CoordLen(params.p), LAMBDA coord_len :
        IF octets[1] # 4 THEN Raise("ValueError", "Invalid W value: " \o ToString(octets[1]))
        ELSE With(octet_list_to_field_elem(SubSeq(octets, 2, coord_len + 1), params.p),
                  LAMBDA x_P :
             With(octet_list_to_field_elem(SubSeq(octets, coord_len + 2, Len(octets)),
                                           params.p),
                  LAMBDA y_P :
                IF ~IsOk(x_P) THEN x_P
                ELSE IF ~IsOk(y_P) THEN y_P
                ELSE Ok(<<x_P.val, y_P.val>>))))

octet_str_to_point(octet_str, params) ==
    With(octet_str_to_octet_list(octet_str), LAMBDA octets :
        IF Len(octets) = 1 /\ IntEqualsStr00(octets[1]) THEN Ok(<<0, 0>>)
        ELSE IF params.p <= 0 THEN Raise("ValueError", "math domain error")
        ELSE IF Len(octets) = CoordLen(params.p) + 1 THEN DecodeCompressed(octets, params)
        ELSE IF Len(octets) = 2 * CoordLen(params.p) + 1
        THEN DecodeUncompressed(octets, params)
        ELSE Raise("ValueError", "Invalid octet string length"))

\* ------------------------------------------------------------------ curveparam.py
\* CurveParam(name, p, a, b, G, n, h), every argument but name an octet string.
\* The constructor converts p, a, b, n, h in this order, asserts
\* 4a^3 + 27b^2 # 0 over the integers and decodes G; what any of these raises,
\* the constructor raises.
CurveParam(name, p, a, b, G, n, h) ==
    With(<<octet_str_to_int(p), octet_str_to_int(a), octet_str_to_int(b),
           octet_str_to_int(n), octet_str_to_int(h)>>, LAMBDA ints :
        IF \E i \in 1..5 : ~IsOk(ints[i])
        THEN ints[CHOOSE i \in 1..5 : ~IsOk(ints[i]) /\ \A j \in 1..(i - 1) : IsOk(ints[j])]
        ELSE With([p |-> ints[1].val, a |-> ints[2].val, b |-> ints[3].val,
                   n |-> ints[4].val, h |-> ints[5].val], LAMBDA params :
            IF 4 * params.a * params.a * params.a + 27 * params.b * params.b = 0
            THEN Raise("AssertionError", "")
            ELSE With(octet_str_to_point(G, params), LAMBDA basepoint :
                    IF ~IsOk(basepoint) THEN basepoint
                    ELSE Ok([name |-> name, params |-> params,
                             basepoint |-> basepoint.val]))))

\* ------------------------------------------------------------------ curvepoint.py
\* CurvePoint(curve, x=x, y=y) and CurvePoint(curve, pos=(x, y))
CurvePoint(c, x, y) == [curve |-> c, x |-> x, y |-> y]

\* CurvePoint(curve, octet_str=s)
CurvePointFromOctetStr(c, s) ==
    With(octet_str_to_point(s, c.params), LAMBDA pos :
        IF IsOk(pos) THEN Ok(CurvePoint(c, pos.val[1], pos.val[2])) ELSE pos)

IsInfinity(P) == P.x = 0 /\ P.y = 0

\* the doubling branch of __add__
PointDouble(P) ==
    LET p == P.curve.params.p
    IN  With(inv_mod(2 * P.y, p), LAMBDA inv :
            IF ~IsOk(inv) THEN inv
            ELSE With(((3 * P.x * P.x + P.curve.params.a) * inv.val) % p, LAMBDA lambda_ :
                 With((lambda_ * lambda_ - 2 * P.x) % p, LAMBDA result_x :
                    Ok(CurvePoint(P.curve, result_x,
                                  (lambda_ * (P.x - result_x) - P.y) % p)))))

\* the general case of __add__
PointChord(P, Q) ==
    LET p == P.curve.params.p
    IN  With(inv_mod(Q.x - P.x, p), LAMBDA inv :
            IF ~IsOk(inv) THEN inv
            ELSE With(((Q.y - P.y) * inv.val) % p, LAMBDA lambda_ :
                 With((lambda_ * lambda_ - P.x - Q.x) % p, LAMBDA result_x :
                    Ok(CurvePoint(P.curve, result_x,
                                  (lambda_ * (P.x - result_x) - P.y) % p)))))

\* __add__ without the branch that returns infinity for P = -Q
PointAddNoInverse(P, Q) ==
    IF P.curve.params # Q.curve.params THEN Raise("AssertionError", "")
    ELSE IF IsInfinity(P) THEN Ok(CurvePoint(P.curve, Q.x, Q.y))
    ELSE IF IsInfinity(Q) THEN Ok(CurvePoint(P.curve, P.x, P.y))
    ELSE IF P.x = Q.x /\ P.y = Q.y THEN PointDouble(P)
    ELSE PointChord(P, Q)

\* CurvePoint.__add__
PointAdd(P, Q) ==
    IF P.curve.params # Q.curve.params THEN Raise("AssertionError", "")
    ELSE IF IsInfinity(P) THEN Ok(CurvePoint(P.curve, Q.x, Q.y))
    ELSE IF IsInfinity(Q) THEN Ok(CurvePoint(P.curve, P.x, P.y))
    ELSE IF P.x = Q.x
    THEN IF P.y = Q.y THEN PointDouble(P) ELSE Ok(CurvePoint(P.curve, 0, 0))
    ELSE PointChord(P, Q)

\* CurvePoint.__neg__
PointNeg(P) == CurvePoint(P.curve, P.x, -P.y)

\* CurvePoint.__eq__
PointEq(P, Q) == P.x = Q.x /\ P.y = Q.y /\ P.curve.name = Q.curve.name

\* the for loop of __rmul__, from bit position shift down to 0
RECURSIVE MulLoop(_, _, _, _)
MulLoop(result, shift, scalar, P) ==
    IF shift < 0 THEN Ok(result)
    ELSE With(PointAdd(result, result), LAMBDA dbl :
            IF ~IsOk(dbl) THEN dbl
            ELSE IF (scalar \div Pow(2, shift)) % 2 = 1
            THEN With(PointAdd(dbl.val, P), LAMBDA sum :
                    IF ~IsOk(sum) THEN sum
                    ELSE MulLoop(sum.val, shift - 1, scalar, P))
            ELSE MulLoop(dbl.val, shift - 1, scalar, P))

\* CurvePoint.__rmul__ for scalar >= 0
MulNonNeg(scalar, P) ==
    IF scalar = 0 THEN Ok(CurvePoint(P.curve, 0, 0))
    ELSE MulLoop(CurvePoint(P.curve, 0, 0), BitLen(scalar) - 1, scalar, P)

\* CurvePoint.__rmul__
PointMul(scalar, P) ==
    IF scalar < 0
    THEN With(MulNonNeg(-scalar, P), LAMBDA pos :
            IF IsOk(pos) THEN Ok(PointNeg(pos.val)) ELSE pos)
    ELSE MulNonNeg(scalar, P)

\* CurvePoint.octet_str
octet_str(P) ==
    IF IsInfinity(P) THEN <<0, 0>>
    ELSE With((IF P.y % 2 = 0 THEN <<2>> ELSE <<3>>) \o field_elem_to_octet_list(P.x),
              LAMBDA octet_list :
         With(IntToHex(octet_list_to_int(octet_list)), LAMBDA str :
            IF Len(str) % 2 # 0 THEN <<0>> \o str ELSE str))

\* ------------------------------------------------------------------ ecdsa.py
\* The injected hash capability (bytes in, hex digest out).  Messages are
\* numbered 0..MaxMsg and the digest of message m is the single octet 37m mod 256.
hash_func(message) == LET v == (37 * message) % 256 IN <<v \div 16, v % 16>>

\* e of create_sign and verify_sign: the digest as an integer, truncated to the
\* bit length of n
DigestE(message, n) ==
    With(octet_str_to_octet_list(hash_func(message)), LAMBDA H :
    With(octet_list_to_int(H), LAMBDA H_bar :
    With(CeilLog2(n), LAMBDA n_bitlen :
        IF n_bitlen >= 8 * Len(H) THEN H_bar
        ELSE H_bar \div Pow(2, 8 * Len(H) - n_bitlen))))

\* secrets.randbelow(bound) returns one of 0..bound-1
RandBelow(bound) == 0..(bound - 1)

\* create_key_pair without the "+ 1"
create_key_pair_from_zero(c, basept, rnd) ==
    With(rnd, LAMBDA d :
    With(PointMul(d, basept), LAMBDA Q :
        IF IsOk(Q) THEN Ok(<<d, Q.val>>) ELSE Q))

\* ECDSA.create_key_pair, for the value rnd that secrets.randbelow returned
create_key_pair(c, basept, rnd) ==
    With(rnd + 1, LAMBDA d :
    With(PointMul(d, basept), LAMBDA Q :
        IF IsOk(Q) THEN Ok(<<d, Q.val>>) ELSE Q))

\* the computation of s in create_sign, after the loop
SignS(c, kk, rr, d, message) ==
    With(DigestE(message, c.params.n), LAMBDA e :
    With(inv_mod(kk, c.params.n), LAMBDA inv :
        IF ~IsOk(inv) THEN inv
        ELSE Ok((inv.val * (e + rr * d)) % c.params.n)))

\* ECDSA.verify_sign.  Besides the outcome, the record counts the calls of
\* inv_mod and the point operations (__rmul__, __add__) made on the way.
VerifyReturn(out, invs, ops) == [out |-> out, inv_calls |-> invs, point_ops |-> ops]

\* the range check with n itself let through
InRangeUpToN(v, n) == 1 <= v /\ v <= n

\* not 1 <= v <= n - 1, negated
InRange(v, n) == 1 <= v /\ v <= n - 1

\* verify_sign after the range checks: lines 90-107
VerifyInRange(c, basept, Q, message, rr, ss) ==
    LET n == c.params.n
    IN  With(DigestE(message, n), LAMBDA e :
        With(inv_mod(ss, n), LAMBDA inv :
            IF ~IsOk(inv) THEN VerifyReturn(inv, 1, 0)
            ELSE With(PointMul((e * inv.val) % n, basept), LAMBDA A :
                 With(PointMul((rr * inv.val) % n, Q), LAMBDA B :
                    IF ~IsOk(A) THEN VerifyReturn(A, 2, 1)
                    ELSE IF ~IsOk(B) THEN VerifyReturn(B, 2, 2)
                    ELSE With(PointAdd(A.val, B.val), LAMBDA RR :
                            IF ~IsOk(RR) THEN VerifyReturn(RR, 2, 3)
                            ELSE IF IsInfinity(RR.val) THEN VerifyReturn(Ok(FALSE), 2, 3)
                            ELSE VerifyReturn(Ok((RR.val.x % n) = rr), 2, 3))))))

verify_sign(c, basept, Q, message, signature) ==
    IF ~InRange(signature[1], c.params.n) THEN VerifyReturn(Ok(FALSE), 0, 0)
    ELSE IF ~InRange(signature[2], c.params.n) THEN VerifyReturn(Ok(FALSE), 0, 0)
    ELSE VerifyInRange(c, basept, Q, message, signature[1], signature[2])

\* ------------------------------------------------------------------ curves
\* Small curves y^2 = x^3 + ax + b over F_p, given as CurveParam is given
\* secp256r1: by octet strings, the base point in compressed form.
\*   E17: p = 17, a = 2, b = 2, order 19 = n, h = 1 (n > p)
\*   E11: p = 11, a = 1, b = 1, order 14, n = 7, h = 2, G = (0, 1), (2, 0) on curve
\*   E13: p = 13, a = 1, b = 0, order 20, n = 5, h = 4, (0, 0), (5, 0), (8, 0) on curve
E17 ==
    CurveParam("E17", <<1, 1>>, <<0, 2>>, <<0, 2>>, <<0, 3, SP, 0, 5>>, <<1, 3>>, <<0, 1>>).val
E11 ==
    CurveParam("E11", <<0, 11>>, <<0, 1>>, <<0, 1>>, <<0, 3, SP, 0, 0>>, <<0, 7>>, <<0, 2>>).val
E13 ==
    CurveParam("E13", <<0, 13>>, <<0, 1>>, <<0, 0>>, <<0, 2, SP, 0, 4>>, <<0, 5>>, <<0, 4>>).val
Curves == {E17, E11, E13}

BasePoint(c) == CurvePoint(c, c.basepoint[1], c.basepoint[2])

\* ------------------------------------------------------------------ bounds
MaxMsg == 7
SigMargin == 1

Messages == 0..MaxMsg
\* the integers offered to verify_sign as r and s: around 0 and around n
SigValues(n) == ((0 - SigMargin)..(1 + SigMargin)) \cup ((n - 1 - SigMargin)..(n + SigMargin))

ScalarMargin == 2
\* the scalars offered to __rmul__
Scalars(n) == (0 - ScalarMargin)..(n + ScalarMargin)

MaxPrime == 22
IsPrime(q) == q > 1 /\ \A f \in 2..(q - 1) : q % f # 0
\* the moduli offered to tonelli
OddPrimes == {q \in 3..MaxPrime : IsPrime(q)}

\* ------------------------------------------------------------------ points
OnCurve(P) ==
    LET p == P.curve.params.p
    IN  (P.y * P.y) % p = (P.x * P.x * P.x + P.curve.params.a * P.x + P.curve.params.b) % p

Infinity(c) == CurvePoint(c, 0, 0)

\* the points a caller can hold: the points of the curve in reduced coordinates
\* and the point at infinity (neg = FALSE), and what negation returns for them
IsCurvePoint(c, x, y) ==
    OnCurve(CurvePoint(c, x, y)) \/ IsInfinity(CurvePoint(c, x, y))
Held(c, x, y, neg) ==
    IF neg THEN PointNeg(CurvePoint(c, x, y)) ELSE CurvePoint(c, x, y)
Coords(c) == 0..(c.params.p - 1)

\* a point of another curve
ForeignPoint(c) == IF c.name = "E17" THEN BasePoint(E11) ELSE BasePoint(E17)

\* hex string of an octet list, two digits per octet
RECURSIVE HexOfOctets(_)
HexOfOctets(octets) ==
    IF octets = <<>> THEN <<>>
    ELSE <<octets[1] \div 16, octets[1] % 16>> \o HexOfOctets(Tail1(octets))

\* the octet strings offered to octet_str_to_point: every string of one to three
\* octets with a leading octet 0..MaxLead and further octets 0..p, the same with
\* a blank or an odd number of digits, and the empty string
MaxLead == 5
DecodeInput(form, i, x, y) ==
    IF form = 0 THEN <<>>
    ELSE IF form = 1 THEN HexOfOctets(<<i>>)
    ELSE IF form = 2 THEN HexOfOctets(<<i, x>>)
    ELSE IF form = 3 THEN HexOfOctets(<<i, x, y>>)
    ELSE <<i, SP>> \o HexOfOctets(<<x>>)
DecodeForms == 0..4

\* ------------------------------------------------------------------ state
VARIABLES
    curve,      \* ECDSA.curve, the CurveParam in use
    G,          \* ECDSA.G
    d_U,        \* ECDSA.d_U, an Optional[int]
    Q_U,        \* ECDSA.Q_U
    pc,         \* "ready"; "sign" while create_sign is in its loop; "done" while
                \* the caller holds what the last call returned
    message,    \* create_sign: the message being signed
    k,          \* create_sign: the ephemeral scalar
    R,          \* create_sign: the ephemeral point
    r,          \* create_sign: r
    ret         \* the last call that returned: its name, arguments and outcome

vars == <<curve, G, d_U, Q_U, pc, message, k, R, r, ret>>


\* ECDSA(curve, hash_func): __init__ draws the key pair with create_key_pair.
\* ECDSA(curve, hash_func, key_pair): the caller passes (d, d * G), 1 <= d < n,
\* or (None, d * G) for an object that only verifies.
Init ==
    \E c \in Curves :
        /\ curve = c
        /\ G = BasePoint(c)
        /\ \/ \E rnd \in RandBelow(c.params.p - 1) :
                \E kp \in {create_key_pair(c, BasePoint(c), rnd)} :
                    /\ IsOk(kp)
                    /\ d_U = Some(kp.val[1])
                    /\ Q_U = kp.val[2]
           \/ \E d \in 1..(c.params.n - 1) :
                /\ d_U \in {Some(d), None}
                /\ Q_U = PointMul(d, BasePoint(c)).val
        /\ pc = "ready"
        /\ message = 0
        /\ k = 0
        /\ R = CurvePoint(c, 0, 0)
        /\ r = 0
        /\ ret = [op |-> "none"]

\* a call of create_key_pair by the user of the object
CreateKeyPair(rnd) ==
    /\ pc = "ready"
    /\ pc' = "done"
    /\ ret' = [op |-> "create_key_pair", rnd |-> rnd, out |-> create_key_pair(curve, G, rnd)]
    /\ UNCHANGED <<curve, G, d_U, Q_U, message, k, R, r>>

\* create_sign up to the loop: lines 50-54.  The assertion on the private key
\* fails for an object built without one, before anything is drawn.
SignBegin(m) ==
    /\ pc = "ready"
    /\ IF d_U = None
       THEN /\ pc' = "done"
            /\ ret' = [op |-> "create_sign", message |-> m, k |-> 0,
                       out |-> Raise("AssertionError", "")]
            /\ UNCHANGED <<message, k, R, r>>
       ELSE /\ pc' = "sign"
            /\ message' = m
            /\ k' = 0
            /\ R' = CurvePoint(curve, 0, 0)
            /\ r' = 0
            /\ ret' = [op |-> "none"]
    /\ UNCHANGED <<curve, G, d_U, Q_U>>

\* one iteration of the while loop: lines 55-58
SignDraw(rnd) ==
    /\ pc = "sign"
    /\ r = 0
    /\ \E kp \in {create_key_pair(curve, G, rnd)} :
           IF IsOk(kp)
           THEN /\ k' = kp.val[1]
                /\ R' = kp.val[2]
                /\ r' = kp.val[2].x % curve.params.n
                /\ UNCHANGED <<pc, message, ret>>
           ELSE /\ ret' = [op |-> "create_sign", message |-> message, k |-> k, out |-> kp]
                /\ pc' = "done"
                /\ k' = 0
                /\ UNCHANGED <<message, R, r>>
    /\ UNCHANGED <<curve, G, d_U, Q_U>>

\* the rest of create_sign: lines 59-74
SignReturn ==
    /\ pc = "sign"
    /\ r # 0
    /\ \E s \in {SignS(curve, k, r, d_U[1], message)} :
          ret' = [op |-> "create_sign", message |-> message, k |-> k,
                  out |-> IF IsOk(s) THEN Ok(<<r, s.val>>) ELSE s]
    /\ pc' = "done"
    /\ message' = 0
    /\ k' = 0
    /\ R' = CurvePoint(curve, 0, 0)
    /\ r' = 0
    /\ UNCHANGED <<curve, G, d_U, Q_U>>

VerifyRecord(m, signature, own) ==
    With(verify_sign(curve, G, Q_U, m, signature), LAMBDA v :
        [op |-> "verify_sign", message |-> m, signature |-> signature, own |-> own,
         out |-> v.out, inv_calls |-> v.inv_calls, point_ops |-> v.point_ops])

\* verify_sign(m, create_sign(m)): the caller passes on what create_sign returned
VerifyReturned ==
    /\ pc = "done"
    /\ ret.op = "create_sign"
    /\ IsOk(ret.out)
    /\ ret' = VerifyRecord(ret.message, ret.out.val, TRUE)
    /\ UNCHANGED <<curve, G, d_U, Q_U, pc, message, k, R, r>>

\* verify_sign(m, (r, s)) for a pair of the caller's choice
VerifySign(m, rr, ss) ==
    /\ pc = "ready"
    /\ pc' = "done"
    /\ ret' = VerifyRecord(m, <<rr, ss>>, FALSE)
    /\ UNCHANGED <<curve, G, d_U, Q_U, message, k, R, r>>

\* the caller drops the returned value; the object is ready for the next call
Discard ==
    /\ pc = "done"
    /\ pc' = "ready"
    /\ ret' = [op |-> "none"]
    /\ UNCHANGED <<curve, G, d_U, Q_U, message, k, R, r>>

CreateKeyPairCall ==
    /\ pc = "ready"
    /\ \E rnd \in RandBelow(curve.params.p - 1) : CreateKeyPair(rnd)

CreateSignCall ==
    /\ pc = "ready"
    /\ \E m \in Messages : SignBegin(m)

SignLoop ==
    /\ pc = "sign"
    /\ \E rnd \in RandBelow(curve.params.p - 1) : SignDraw(rnd)

VerifySignCall ==
    /\ pc = "ready"
    /\ \E m \in Messages :
          \E rr \in SigValues(curve.params.n), ss \in SigValues(curve.params.n) :
             VerifySign(m, rr, ss)

Next ==
    \/ CreateKeyPairCall
    \/ CreateSignCall
    \/ SignLoop
    \/ SignReturn
    \/ VerifyReturned
    \/ VerifySignCall
    \/ Discard

Spec == Init /\ [][Next]_vars

\* ------------------------------------------------------------------ the library
\* The point, codec and number-theory functions called directly: the state is
\* the curve and the last call.
InitLib ==
    \E c \in Curves :
        /\ curve = c
        /\ G = BasePoint(c)
        /\ d_U = None
        /\ Q_U = BasePoint(c)
        /\ pc = "ready"
        /\ message = 0
        /\ k = 0
        /\ R = CurvePoint(c, 0, 0)
        /\ r = 0
        /\ ret = [op |-> "none"]

Returns(record) ==
    /\ pc = "ready"
    /\ pc' = "done"
    /\ ret' = record
    /\ UNCHANGED <<curve, G, d_U, Q_U, message, k, R, r>>

\* P + Q
Add(P, Q) == Returns([op |-> "add", P |-> P, Q |-> Q, out |-> PointAdd(P, Q)])

\* -P
Neg(P) == Returns([op |-> "neg", P |-> P, out |-> Ok(PointNeg(P))])

\* scalar * P
Mul(scalar, P) ==
    Returns([op |-> "mul", scalar |-> scalar, P |-> P, out |-> PointMul(scalar, P)])

\* P.octet_str()
OctetStr(P) == Returns([op |-> "octet_str", P |-> P, out |-> Ok(octet_str(P))])

\* CurvePoint(curve, octet_str=s)
Decode(s) == Returns([op |-> "decode", s |-> s, out |-> CurvePointFromOctetStr(curve, s)])

\* tonelli(a, p)
Tonelli(a, p) == Returns([op |-> "tonelli", a |-> a, p |-> p, out |-> tonelli(a, p)])

\* the callers of the library: each call with the arguments offered to it
AddCall ==
    /\ pc = "ready"
    /\ \E x1 \in Coords(curve), y1 \in Coords(curve), n1 \in BOOLEAN :
          /\ IsCurvePoint(curve, x1, y1)
          /\ \/ \E x2 \in Coords(curve), y2 \in Coords(curve), n2 \in BOOLEAN :
                   /\ IsCurvePoint(curve, x2, y2)
                   /\ Add(Held(curve, x1, y1, n1), Held(curve, x2, y2, n2))
             \/ Add(Held(curve, x1, y1, n1), ForeignPoint(curve))

NegCall ==
    /\ pc = "ready"
    /\ \E x1 \in Coords(curve), y1 \in Coords(curve), n1 \in BOOLEAN :
          IsCurvePoint(curve, x1, y1) /\ Neg(Held(curve, x1, y1, n1))

MulCall ==
    /\ pc = "ready"
    /\ \E scalar \in Scalars(curve.params.n) :
          \E x1 \in Coords(curve), y1 \in Coords(curve) :
             IsCurvePoint(curve, x1, y1) /\ Mul(scalar, CurvePoint(curve, x1, y1))

OctetStrCall ==
    /\ pc = "ready"
    /\ \E x1 \in Coords(curve), y1 \in Coords(curve), n1 \in BOOLEAN :
          IsCurvePoint(curve, x1, y1) /\ OctetStr(Held(curve, x1, y1, n1))

DecodeCall ==
    /\ pc = "ready"
    /\ \E form \in DecodeForms, i \in 0..MaxLead :
          \E x \in 0..curve.params.p, y \in 0..curve.params.p :
             Decode(DecodeInput(form, i, x, y))

TonelliCall ==
    /\ pc = "ready"
    /\ \E p \in OddPrimes : \E a \in 0..(p - 1) : Tonelli(a, p)

NextLib ==
    \/ AddCall
    \/ NegCall
    \/ MulCall
    \/ OctetStrCall
    \/ DecodeCall
    \/ TonelliCall
    \/ Discard

SpecLib == InitLib /\ [][NextLib]_vars


\* ------------------------------------------------------------------ properties
\* a point in reduced coordinates that is on its curve, or the point at infinity
Reduced(P) == P.x \in Coords(P.curve) /\ P.y \in Coords(P.curve)
OnCurveOrInfinity(P) == IsInfinity(P) \/ OnCurve(P)
ValidPoint(P) == P.curve = curve /\ Reduced(P) /\ OnCurveOrInfinity(P)

\* P added to itself cnt times, by __add__ alone
RECURSIVE RepeatedAdd(_, _)
RepeatedAdd(cnt, P) ==
    IF cnt = 0 THEN Infinity(P.curve)
    ELSE With(RepeatedAdd(cnt - 1, P), LAMBDA sum : PointAdd(sum, P).val)

\* a has a square root in F_p
HasSquareRoot(a, p) == \E w \in 0..(p - 1) : (w * w) % p = a

\* C1: verify_sign(m, create_sign(m)) returns True for the key pair of the
\* object, whatever the message and the ephemeral scalar drawn.
C1_SignVerifyRoundTrip ==
    (ret.op = "verify_sign" /\ ret.own) => ret.out = Ok(TRUE)

\* C2: for every point P of the curve, the point at infinity included, decoding
\* P.octet_str() with the same curve succeeds and yields a point equal to P.
C2_EncodeDecodeRoundTrip ==
    (ret.op = "octet_str" /\ ValidPoint(ret.P)) =>
        \E dec \in {CurvePointFromOctetStr(curve, ret.out.val)} :
            IsOk(dec) /\ PointEq(dec.val, ret.P)

\* C3: for all k1, k2 in 0..n-1, (k1 * G) + (k2 * G) equals ((k1 + k2) mod n) * G.
C3_GroupLaw ==
    ret.op = "add" =>
        LET n == curve.params.n
        IN  \A k1 \in 0..(n - 1) :
                ret.P = PointMul(k1, G).val =>
                    \A k2 \in 0..(n - 1) :
                        ret.Q = PointMul(k2, G).val =>
                            /\ IsOk(ret.out)
                            /\ PointEq(ret.out.val, PointMul((k1 + k2) % n, G).val)

\* C3 witness: k1 * G and (n - k1) * G, k1 >= 1, were added and the sum is the
\* point at infinity.
C3_Witness ==
    /\ ret.op = "add"
    /\ \E k1 \in 1..(curve.params.n - 1) :
          /\ ret.P = PointMul(k1, G).val
          /\ ret.Q = PointMul(curve.params.n - k1, G).val
    /\ ~IsInfinity(ret.P)
    /\ IsOk(ret.out)
    /\ IsInfinity(ret.out.val)

\* C4: for every point P of the curve (y = 0 and infinity included),
\* P + infinity = P, infinity + P = P and P + (-P) is the point at infinity;
\* none of the additions raises.
C4_IdentityAndInverse ==
    ret.op = "add" =>
        /\ (ValidPoint(ret.P) /\ ret.Q = Infinity(curve)) =>
               IsOk(ret.out) /\ PointEq(ret.out.val, ret.P)
        /\ (ret.P = Infinity(curve) /\ ValidPoint(ret.Q)) =>
               IsOk(ret.out) /\ PointEq(ret.out.val, ret.Q)
        /\ (ValidPoint(ret.P) /\ ret.Q = PointNeg(ret.P)) =>
               IsOk(ret.out) /\ IsInfinity(ret.out.val)

\* C5: tonelli(a, p) returns a square root of a when a has one in F_p, and
\* fails with the "not a square" error when a has none.
C5_Tonelli ==
    ret.op = "tonelli" =>
        IF HasSquareRoot(ret.a, ret.p)
        THEN IsOk(ret.out) /\ (ret.out.val * ret.out.val) % ret.p = ret.a
        ELSE ret.out = Raise("AssertionError", "not a square (mod p)")

\* C6: when r or s is outside 1..n-1, verify_sign returns False without
\* raising and without calling inv_mod or any point operation.
C6_RangeCheck ==
    LET n == curve.params.n
    IN  (/\ ret.op = "verify_sign"
         /\ \/ ret.signature[1] < 1
            \/ ret.signature[1] > n - 1
            \/ ret.signature[2] < 1
            \/ ret.signature[2] > n - 1)
        => (ret.out = Ok(FALSE) /\ ret.inv_calls = 0 /\ ret.point_ops = 0)

\* C6 witness: verify_sign was called with r inside 1..n-1 and s = n.
C6_Witness ==
    /\ ret.op = "verify_sign"
    /\ ret.signature[1] = 1
    /\ ret.signature[2] = curve.params.n
    /\ ret.out = Ok(FALSE)

\* C7: negation of a point (x, y) other than infinity, 0 <= y < p, returns
\* (x, (-y) mod p), equal to the point built from (x, (p - y) mod p); negation
\* of the point at infinity returns the point at infinity.
C7_Negation ==
    (ret.op = "neg" /\ ValidPoint(ret.P)) =>
        LET p == curve.params.p
        IN  IF IsInfinity(ret.P) THEN IsInfinity(ret.out.val)
            ELSE /\ ret.out.val.x = ret.P.x
                 /\ ret.out.val.y = (0 - ret.P.y) % p
                 /\ PointEq(ret.out.val, CurvePoint(curve, ret.P.x, (p - ret.P.y) % p))

\* what C8 says of one pair (d, Q) returned by create_key_pair, d in lo..hi
KeyPairIn(d, Q, lo, hi) == d \in lo..hi /\ Q = RepeatedAdd(d, G)

\* C8 as stated: create_key_pair returns (d, Q) with d in 1..p-2 and Q = d * G,
\* for the caller and for the loop of create_sign alike.
C8_KeyPairRangeAsStated ==
    /\ ret.op = "create_key_pair" =>
          IsOk(ret.out) /\ KeyPairIn(ret.out.val[1], ret.out.val[2], 1, curve.params.p - 2)
    /\ (pc = "sign" /\ k # 0) => KeyPairIn(k, R, 1, curve.params.p - 2)

\* C8 amended: create_key_pair returns (d, Q) with d in 1..p-1 and Q = d * G.
C8_KeyPairRange ==
    /\ ret.op = "create_key_pair" =>
          IsOk(ret.out) /\ KeyPairIn(ret.out.val[1], ret.out.val[2], 1, curve.params.p - 1)
    /\ (pc = "sign" /\ k # 0) => KeyPairIn(k, R, 1, curve.params.p - 1)

\* C8 witness: create_key_pair returned d = p - 1, the largest scalar it draws.
C8_Witness ==
    /\ ret.op = "create_key_pair"
    /\ IsOk(ret.out)
    /\ ret.out.val[1] = curve.params.p - 1
    /\ ret.rnd = curve.params.p - 2

\* the octet string s is a compressed point of the right length, with indicator
\* 02 or 03 and x in the field, whose x^3 + ax + b has no square root
NonResidueEncoding(s, params) ==
    \E octets \in {octet_str_to_octet_list(s)} :
        /\ Len(octets) = CoordLen(params.p) + 1
        /\ octets[1] \in {2, 3}
        /\ \E x \in {octet_list_to_int(Tail1(octets))} :
              /\ x < params.p
              /\ ~HasSquareRoot((x * x * x + params.a * x + params.b) % params.p,
                                params.p)

\* C9: decoding a compressed point whose x gives a non-residue fails with
\* ValueError, the error of every other invalid encoding.
C9_NonResidueIsValueError ==
    (ret.op = "decode" /\ NonResidueEncoding(ret.s, curve.params)) =>
        ret.out.kind = "ValueError"

\* C10: a point decoded without error, and a point returned by addition,
\* negation or scalar multiplication of points of the curve, is the point at
\* infinity or satisfies y^2 = x^3 + ax + b (mod p).
C10_OnCurve ==
    /\ (ret.op = "decode" /\ IsOk(ret.out)) => OnCurveOrInfinity(ret.out.val)
    /\ (/\ ret.op = "add"
        /\ ret.Q.curve = curve
        /\ OnCurveOrInfinity(ret.P)
        /\ OnCurveOrInfinity(ret.Q)
        /\ IsOk(ret.out)) => OnCurveOrInfinity(ret.out.val)
    /\ (ret.op = "neg" /\ OnCurveOrInfinity(ret.P)) => OnCurveOrInfinity(ret.out.val)
    /\ (ret.op = "mul" /\ OnCurveOrInfinity(ret.P) /\ IsOk(ret.out)) =>
           OnCurveOrInfinity(ret.out.val)
====
